---- MODULE Spec2Model ----
(***************************************************************************)
(* Model of the binary semaphore of src/src/one.rs: a bool behind a        *)
(* std::sync::Mutex plus a Condvar, shared through an Arc by cloneable     *)
(* handles.  Each thread is a caller of signal(), signal_if_needed() or    *)
(* wait(); a call is split at the points where the thread can be           *)
(* preempted with an effect visible to others: waiting for the mutex,      *)
(* holding the guard, parked on the condition variable, woken and          *)
(* re-acquiring the mutex, dropping the guard.                             *)
(***************************************************************************)
EXTENDS Naturals, FiniteSets, Sequences

\* ---------------------------------------------------------------- bounds
NumThreads == 3
MaxCalls == 4
MaxHandles == 3

Threads == 1..NumThreads
NoThread == 0
NoCore == 0

SignalOp == "signal"
SignalIfNeededOp == "signal_if_needed"
WaitOp == "wait"
NoOp == "none"
Ops == {SignalOp, SignalIfNeededOp, WaitOp}
SignalOps == {SignalOp, SignalIfNeededOp}

\* A thread outside a call: it has made no call or its last call returned
\* ("idle"), or its last call panicked, in the assertion of signal()
\* ("misuse") or in unwrap() of a PoisonError ("poisoned").
Ready == {"idle", "misuse", "poisoned"}
Failed == {"misuse", "poisoned"}

VARIABLES
    handles,        \* handles[h]: the core (Arc<Shared>) handle h points to
    ctor,           \* ctor[c]: the constructor that made core c
    initially,      \* initially[c]: the flag core c was constructed with
    flag,           \* flag[c]: the bool inside Shared.m
    owner,          \* owner[c]: the thread holding the MutexGuard of Shared.m
    poison,         \* poison[c]: the poison flag of Shared.m
    pc,             \* pc[t]: where thread t is
    op,             \* op[t]: the method thread t is executing
    core,           \* core[t]: the core self.shared of that call
    pre,            \* pre[t]: history, see Call and WaitConsume
    calls,          \* calls begun, on all cores
    issued,         \* issued[c][o]: calls of method o begun on core c
    sigDone,        \* sigDone[c]: signal()/signal_if_needed() calls completed
    waitDone,       \* waitDone[c]: wait() calls returned
    notifies,       \* notifies[c]: notify_one() calls made on Shared.c
    blockedAtSignal, \* blockedAtSignal[c]: the threads inside Condvar::wait
                    \* when the latest signal() set the flag
    mixed,          \* mixed[c]: history, some signal()/signal_if_needed() on
                    \* core c was under way when a wait() on it began, or
                    \* was begun after one
    origin,         \* origin[h]: history, the constructed handle that handle
                    \* h is, or was cloned from, directly or not
    raised          \* raised[c]: history, the critical sections of signal()
                    \* and signal_if_needed() that found the flag false

vars == <<handles, ctor, initially, flag, owner, poison, pc, op, core, pre,
          calls, issued, sigDone, waitDone, notifies, blockedAtSignal, mixed,
          origin, raised>>

\* The cores that exist.
Cores == DOMAIN flag

\* ------------------------------------------------------------ construction
\* new() that ignores its argument.
NewUnsignaled(initially_signaled) == FALSE

\* Semaphore::new(initially_signaled): the Mutex holds the argument.
New(initially_signaled) == initially_signaled

\* Default::default(): Self::new(false).
Default == New(FALSE)

\* PartialEq that compares the flags the two handles guard.
EqByValue(h1, h2) == flag[handles[h1]] = flag[handles[h2]]

\* PartialEq: Arc::ptr_eq of the two handles' shared cores.
Eq(h1, h2) == handles[h1] = handles[h2]

\* Hash: the address of the shared core.
Hash(h) == handles[h]

\* The flag a constructor leaves in the Mutex.
Construct(k) == IF k = "default" THEN Default ELSE New(k = "new_true")

Ctors == {"new_true", "new_false", "default"}

\* The threads parked on the condition variable of core c.
Waiters(c) == {t \in Threads : pc[t] = "blocked" /\ core[t] = c}

\* The threads inside Condvar::wait of core c: parked, or woken and not yet
\* holding the mutex again.
InCondvar(c) == {t \in Threads : pc[t] \in {"blocked", "woken"} /\ core[t] = c}

\* Some signal() or signal_if_needed() call on core c is under way.
SignalsInFlight(c) == \E t \in Threads : op[t] \in SignalOps /\ core[t] = c

\* The rest of the state once the cores are constructed.
Start ==
    /\ flag = initially
    /\ owner = [c \in DOMAIN initially |-> NoThread]
    /\ poison = [c \in DOMAIN initially |-> FALSE]
    /\ pc = [t \in Threads |-> "idle"]
    /\ op = [t \in Threads |-> NoOp]
    /\ core = [t \in Threads |-> NoCore]
    /\ pre = [t \in Threads |-> FALSE]
    /\ calls = 0
    /\ issued = [c \in DOMAIN initially |-> [o \in Ops |-> 0]]
    /\ sigDone = [c \in DOMAIN initially |-> 0]
    /\ waitDone = [c \in DOMAIN initially |-> 0]
    /\ notifies = [c \in DOMAIN initially |-> 0]
    /\ blockedAtSignal = [c \in DOMAIN initially |-> {}]
    /\ mixed = [c \in DOMAIN initially |-> FALSE]
    /\ origin = [h \in DOMAIN handles |-> h]
    /\ raised = [c \in DOMAIN initially |-> 0]

\* One semaphore, from any of the constructors; handle 1 is its handle.
Init ==
    /\ handles = <<1>>
    /\ \E k \in Ctors : ctor = <<k>>
    /\ initially = <<Construct(ctor[1])>>
    /\ Start

\* Two semaphores: handle 1 is Semaphore::new(b), handle 2 is
\* Semaphore::default().
InitTwo ==
    /\ handles = <<1, 2>>
    /\ \E k \in {"new_true", "new_false"} : ctor = <<k, "default">>
    /\ initially = <<Construct(ctor[1]), Construct(ctor[2])>>
    /\ Start

\* ----------------------------------------------------------------- actions
\* #[derive(Clone)]: another handle on the same Arc.
Clone(h) ==
    /\ Len(handles) < MaxHandles
    /\ handles' = Append(handles, handles[h])
    /\ origin' = Append(origin, origin[h])
    /\ UNCHANGED <<calls, ctor, initially, flag, owner, poison, pc, op,
                   core, pre, issued, sigDone, waitDone, notifies,
                   blockedAtSignal, mixed, raised>>

\* Thread t calls method o on handle h; it now waits for the mutex.
\* pre[t] records, for a wait(), that a signal had completed and its permit
\* was there when the call began.
Call(t, h, o) ==
    /\ pc[t] \in Ready
    /\ calls < MaxCalls
    /\ calls' = calls + 1
    /\ pc' = [pc EXCEPT ![t] = "lock"]
    /\ op' = [op EXCEPT ![t] = o]
    /\ core' = [core EXCEPT ![t] = handles[h]]
    /\ pre' = [pre EXCEPT ![t] = /\ o = WaitOp
                                 /\ flag[handles[h]]
                                 /\ sigDone[handles[h]] > 0]
    /\ issued' = [issued EXCEPT ![handles[h]][o] = @ + 1]
    /\ mixed' = [mixed EXCEPT ![handles[h]] =
                    \/ @
                    \/ o = WaitOp /\ SignalsInFlight(handles[h])
                    \/ o \in SignalOps /\ issued[handles[h]][WaitOp] > 0]
    /\ UNCHANGED <<handles, ctor, initially, flag, owner, poison,
                   sigDone, waitDone, notifies, blockedAtSignal,
                   origin, raised>>

\* The call of thread t ends: by returning, or by a panic.
Finish(t, how) ==
    /\ pc' = [pc EXCEPT ![t] = how]
    /\ op' = [op EXCEPT ![t] = NoOp]
    /\ core' = [core EXCEPT ![t] = NoCore]
    /\ pre' = [pre EXCEPT ![t] = FALSE]

\* lock() on a mutex that does not poison, or with the PoisonError
\* discarded (into_inner): the guard is handed out after a panic too.
LockIgnoresPoison(t) ==
    /\ pc[t] = "lock"
    /\ owner[core[t]] = NoThread
    /\ owner' = [owner EXCEPT ![core[t]] = t]
    /\ pc' = [pc EXCEPT ![t] = "locked"]
    /\ UNCHANGED <<calls, handles, ctor, initially, flag, poison, op, core,
                   pre, issued, sigDone, waitDone, notifies,
                   blockedAtSignal, mixed, origin, raised>>

\* A lock() that does not exclude: it hands out a guard while another thread
\* holds one.
LockBarges(t) ==
    /\ pc[t] = "lock"
    /\ IF poison[core[t]]
       THEN /\ Finish(t, "poisoned")
            /\ UNCHANGED owner
       ELSE /\ owner' = [owner EXCEPT ![core[t]] = t]
            /\ pc' = [pc EXCEPT ![t] = "locked"]
            /\ UNCHANGED <<op, core, pre>>
    /\ UNCHANGED <<calls, handles, ctor, initially, flag, poison, issued,
                   sigDone, waitDone, notifies, blockedAtSignal, mixed,
                   origin, raised>>

\* try_lock().unwrap() in place of lock().unwrap(): a held mutex is an Err
\* too, and the call panics.
LockTry(t) ==
    /\ pc[t] = "lock"
    /\ IF poison[core[t]] \/ owner[core[t]] # NoThread
       THEN /\ Finish(t, "poisoned")
            /\ UNCHANGED owner
       ELSE /\ owner' = [owner EXCEPT ![core[t]] = t]
            /\ pc' = [pc EXCEPT ![t] = "locked"]
            /\ UNCHANGED <<op, core, pre>>
    /\ UNCHANGED <<calls, handles, ctor, initially, flag, poison, issued,
                   sigDone, waitDone, notifies, blockedAtSignal, mixed,
                   origin, raised>>

\* self.shared.m.lock().unwrap(): blocks while the mutex is held; on a
\* poisoned mutex lock() is an Err, unwrap() panics and the guard inside the
\* error is dropped again.
Lock(t) ==
    /\ pc[t] = "lock"
    /\ owner[core[t]] = NoThread
    /\ IF poison[core[t]]
       THEN /\ Finish(t, "poisoned")
            /\ UNCHANGED owner
       ELSE /\ owner' = [owner EXCEPT ![core[t]] = t]
            /\ pc' = [pc EXCEPT ![t] = "locked"]
            /\ UNCHANGED <<op, core, pre>>
    /\ UNCHANGED <<calls, handles, ctor, initially, flag, poison, issued,
                   sigDone, waitDone, notifies, blockedAtSignal, mixed,
                   origin, raised>>

\* History: the critical section of thread t turns the flag from false to
\* true, or finds it true.
Raise(t) ==
    raised' = [raised EXCEPT ![core[t]] = IF flag[core[t]] THEN @ ELSE @ + 1]

\* notify_one() on a condition variable that all cores share: it wakes a
\* thread parked by a wait() on any of them.
NotifyAny(t) ==
    /\ notifies' = [notifies EXCEPT ![core[t]] = @ + 1]
    /\ IF \A w \in Threads : pc[w] # "blocked"
       THEN pc' = [pc EXCEPT ![t] = "unlock"]
       ELSE \E w \in {u \in Threads : pc[u] = "blocked"} :
                pc' = [pc EXCEPT ![t] = "unlock", ![w] = "woken"]

\* notify_one() that wakes nobody.
NotifyNone(t) ==
    /\ notifies' = [notifies EXCEPT ![core[t]] = @ + 1]
    /\ pc' = [pc EXCEPT ![t] = "unlock"]

\* self.shared.c.notify_one(): wakes one thread parked on the condition
\* variable, if there is one.
NotifyOne(t) ==
    /\ notifies' = [notifies EXCEPT ![core[t]] = @ + 1]
    /\ IF Waiters(core[t]) = {}
       THEN pc' = [pc EXCEPT ![t] = "unlock"]
       ELSE \E w \in Waiters(core[t]) :
                pc' = [pc EXCEPT ![t] = "unlock", ![w] = "woken"]

\* signal() that also asserts that fewer than two threads are inside
\* Condvar::wait.
SignalBodyCountsWaiters(t) ==
    /\ pc[t] = "locked"
    /\ op[t] = SignalOp
    /\ IF flag[core[t]] \/ Cardinality(InCondvar(core[t])) >= 2
       THEN /\ poison' = [poison EXCEPT ![core[t]] = TRUE]
            /\ owner' = [owner EXCEPT ![core[t]] = NoThread]
            /\ Finish(t, "misuse")
            /\ UNCHANGED <<flag, notifies, blockedAtSignal, raised>>
       ELSE /\ flag' = [flag EXCEPT ![core[t]] = TRUE]
            /\ blockedAtSignal' =
                   [blockedAtSignal EXCEPT ![core[t]] = InCondvar(core[t])]
            /\ Raise(t)
            /\ NotifyOne(t)
            /\ UNCHANGED <<poison, owner, op, core, pre>>
    /\ UNCHANGED <<calls, handles, ctor, initially, issued, sigDone,
                   waitDone, mixed, origin>>

\* signal() without its assertion: an already set flag is accepted silently.
SignalBodyNoAssert(t) ==
    /\ pc[t] = "locked"
    /\ op[t] = SignalOp
    /\ flag' = [flag EXCEPT ![core[t]] = TRUE]
    /\ blockedAtSignal' =
           [blockedAtSignal EXCEPT ![core[t]] = InCondvar(core[t])]
    /\ Raise(t)
    /\ NotifyOne(t)
    /\ UNCHANGED <<calls, handles, ctor, initially, poison, owner, op,
                   core, pre, issued, sigDone, waitDone, mixed, origin>>

\* signal(), with the guard: assert!(!*guard); *guard = true; notify_one().
\* The failed assertion unwinds through the guard, which poisons the mutex
\* and unlocks it.
SignalBody(t) ==
    /\ pc[t] = "locked"
    /\ op[t] = SignalOp
    /\ IF flag[core[t]]
       THEN /\ poison' = [poison EXCEPT ![core[t]] = TRUE]
            /\ owner' = [owner EXCEPT ![core[t]] = NoThread]
            /\ Finish(t, "misuse")
            /\ UNCHANGED <<flag, notifies, blockedAtSignal, raised>>
       ELSE /\ flag' = [flag EXCEPT ![core[t]] = TRUE]
            /\ blockedAtSignal' =
                   [blockedAtSignal EXCEPT ![core[t]] = InCondvar(core[t])]
            /\ Raise(t)
            /\ NotifyOne(t)
            /\ UNCHANGED <<poison, owner, op, core, pre>>
    /\ UNCHANGED <<calls, handles, ctor, initially, issued, sigDone,
                   waitDone, mixed, origin>>

\* signal_if_needed() with the assertion of signal().
SignalIfNeededBodyAsserts(t) ==
    /\ pc[t] = "locked"
    /\ op[t] = SignalIfNeededOp
    /\ IF flag[core[t]]
       THEN /\ poison' = [poison EXCEPT ![core[t]] = TRUE]
            /\ owner' = [owner EXCEPT ![core[t]] = NoThread]
            /\ Finish(t, "misuse")
            /\ UNCHANGED <<flag, notifies, raised>>
       ELSE /\ flag' = [flag EXCEPT ![core[t]] = TRUE]
            /\ Raise(t)
            /\ NotifyOne(t)
            /\ UNCHANGED <<poison, owner, op, core, pre>>
    /\ UNCHANGED <<calls, handles, ctor, initially, issued, sigDone,
                   waitDone, blockedAtSignal, mixed, origin>>

\* signal_if_needed() that notifies only when it changes the flag.
SignalIfNeededBodyQuiet(t) ==
    /\ pc[t] = "locked"
    /\ op[t] = SignalIfNeededOp
    /\ flag' = [flag EXCEPT ![core[t]] = TRUE]
    /\ Raise(t)
    /\ IF flag[core[t]]
       THEN /\ pc' = [pc EXCEPT ![t] = "unlock"]
            /\ UNCHANGED notifies
       ELSE NotifyOne(t)
    /\ UNCHANGED <<calls, handles, ctor, initially, owner, poison, op,
                   core, pre, issued, sigDone, waitDone, blockedAtSignal,
                   mixed, origin>>

\* signal_if_needed(), with the guard: *guard = true; notify_one().
SignalIfNeededBody(t) ==
    /\ pc[t] = "locked"
    /\ op[t] = SignalIfNeededOp
    /\ flag' = [flag EXCEPT ![core[t]] = TRUE]
    /\ Raise(t)
    /\ NotifyOne(t)
    /\ UNCHANGED <<calls, handles, ctor, initially, owner, poison, op,
                   core, pre, issued, sigDone, waitDone, blockedAtSignal,
                   mixed, origin>>

\* wait() with *g = false moved in front of wait_while: it clears the flag,
\* then parks.
WaitCheckClearsFirst(t) ==
    /\ pc[t] = "locked"
    /\ op[t] = WaitOp
    /\ flag' = [flag EXCEPT ![core[t]] = FALSE]
    /\ pc' = [pc EXCEPT ![t] = "blocked"]
    /\ owner' = [owner EXCEPT ![core[t]] = NoThread]
    /\ UNCHANGED <<calls, handles, ctor, initially, poison, op, core, pre,
                   issued, sigDone, waitDone, notifies, blockedAtSignal,
                   mixed, origin, raised>>

\* wait() that parks without releasing the mutex: it sleeps holding the
\* guard.
WaitCheckKeepsLock(t) ==
    /\ pc[t] = "locked"
    /\ op[t] = WaitOp
    /\ pc' = [pc EXCEPT ![t] = IF flag[core[t]] THEN "observed" ELSE "blocked"]
    /\ UNCHANGED <<calls, handles, ctor, initially, flag, owner, poison, op,
                   core, pre, issued, sigDone, waitDone, notifies,
                   blockedAtSignal, mixed, origin, raised>>

\* wait() that drops the guard once it has seen the flag true, and clears
\* the flag later.
WaitCheckReleases(t) ==
    /\ pc[t] = "locked"
    /\ op[t] = WaitOp
    /\ pc' = [pc EXCEPT ![t] = IF flag[core[t]] THEN "observed" ELSE "blocked"]
    /\ owner' = [owner EXCEPT ![core[t]] = NoThread]
    /\ UNCHANGED <<calls, handles, ctor, initially, flag, poison, op, core,
                   pre, issued, sigDone, waitDone, notifies,
                   blockedAtSignal, mixed, origin, raised>>

\* wait() with the loop condition inverted: parks while the flag is true.
WaitCheckInverted(t) ==
    /\ pc[t] = "locked"
    /\ op[t] = WaitOp
    /\ IF flag[core[t]]
       THEN /\ pc' = [pc EXCEPT ![t] = "blocked"]
            /\ owner' = [owner EXCEPT ![core[t]] = NoThread]
       ELSE /\ pc' = [pc EXCEPT ![t] = "observed"]
            /\ UNCHANGED owner
    /\ UNCHANGED <<calls, handles, ctor, initially, flag, poison, op, core,
                   pre, issued, sigDone, waitDone, notifies,
                   blockedAtSignal, mixed, origin, raised>>

\* wait(), with the guard: one evaluation of the wait_while loop condition
\* |guard| !*guard.  While it is true the thread parks on the condition
\* variable, which unlocks the mutex; else wait_while yields the guard.
WaitCheck(t) ==
    /\ pc[t] = "locked"
    /\ op[t] = WaitOp
    /\ IF ~flag[core[t]]
       THEN /\ pc' = [pc EXCEPT ![t] = "blocked"]
            /\ owner' = [owner EXCEPT ![core[t]] = NoThread]
       ELSE /\ pc' = [pc EXCEPT ![t] = "observed"]
            /\ UNCHANGED owner
    /\ UNCHANGED <<calls, handles, ctor, initially, flag, poison, op, core,
                   pre, issued, sigDone, waitDone, notifies,
                   blockedAtSignal, mixed, origin, raised>>

\* wait() without *g = false: the permit is left in place.
WaitConsumeKeepsFlag(t) ==
    /\ pc[t] = "observed"
    /\ pc' = [pc EXCEPT ![t] = "unlock"]
    /\ UNCHANGED <<calls, handles, ctor, initially, flag, owner, poison,
                   op, core, pre, issued, sigDone, waitDone, notifies,
                   blockedAtSignal, mixed, origin, raised>>

\* wait(): *g = false.  The permit is gone for every other wait() in flight.
WaitConsume(t) ==
    /\ pc[t] = "observed"
    /\ flag' = [flag EXCEPT ![core[t]] = FALSE]
    /\ pc' = [pc EXCEPT ![t] = "unlock"]
    /\ pre' = [u \in Threads |-> pre[u] /\ (u = t \/ core[u] # core[t])]
    /\ UNCHANGED <<calls, handles, ctor, initially, owner, poison, op,
                   core, issued, sigDone, waitDone, notifies,
                   blockedAtSignal, mixed, origin, raised>>

\* A call that returns without dropping its guard (mem::forget): the mutex
\* stays locked.
UnlockLeaks(t) ==
    /\ pc[t] = "unlock"
    /\ IF op[t] = WaitOp
       THEN /\ waitDone' = [waitDone EXCEPT ![core[t]] = @ + 1]
            /\ UNCHANGED sigDone
       ELSE /\ sigDone' = [sigDone EXCEPT ![core[t]] = @ + 1]
            /\ UNCHANGED waitDone
    /\ Finish(t, "idle")
    /\ UNCHANGED <<calls, handles, ctor, initially, flag, owner, poison,
                   issued, notifies, blockedAtSignal, mixed, origin, raised>>

\* The guard goes out of scope at the end of the block: the mutex is
\* unlocked and the call returns.
Unlock(t) ==
    /\ pc[t] = "unlock"
    /\ owner' = [owner EXCEPT ![core[t]] = NoThread]
    /\ IF op[t] = WaitOp
       THEN /\ waitDone' = [waitDone EXCEPT ![core[t]] = @ + 1]
            /\ UNCHANGED sigDone
       ELSE /\ sigDone' = [sigDone EXCEPT ![core[t]] = @ + 1]
            /\ UNCHANGED waitDone
    /\ Finish(t, "idle")
    /\ UNCHANGED <<calls, handles, ctor, initially, flag, poison, issued,
                   notifies, blockedAtSignal, mixed, origin, raised>>

\* Condvar::wait may wake with no notification.
SpuriousWakeup(t) ==
    /\ pc[t] = "blocked"
    /\ pc' = [pc EXCEPT ![t] = "woken"]
    /\ UNCHANGED <<calls, handles, ctor, initially, flag, owner, poison,
                   op, core, pre, issued, sigDone, waitDone, notifies,
                   blockedAtSignal, mixed, origin, raised>>

\* Condvar::wait in place of wait_while: a woken thread goes on without
\* testing the flag again.
ReacquireNoRecheck(t) ==
    /\ pc[t] = "woken"
    /\ owner[core[t]] = NoThread
    /\ IF poison[core[t]]
       THEN /\ Finish(t, "poisoned")
            /\ UNCHANGED owner
       ELSE /\ owner' = [owner EXCEPT ![core[t]] = t]
            /\ pc' = [pc EXCEPT ![t] = "observed"]
            /\ UNCHANGED <<op, core, pre>>
    /\ UNCHANGED <<calls, handles, ctor, initially, flag, poison, issued,
                   sigDone, waitDone, notifies, blockedAtSignal, mixed,
                   origin, raised>>

\* Condvar::wait, woken: locks the mutex again, then reports its poison
\* flag; wait_while passes the Err on and unwrap() panics.
Reacquire(t) ==
    /\ pc[t] = "woken"
    /\ owner[core[t]] = NoThread
    /\ IF poison[core[t]]
       THEN /\ Finish(t, "poisoned")
            /\ UNCHANGED owner
       ELSE /\ owner' = [owner EXCEPT ![core[t]] = t]
            /\ pc' = [pc EXCEPT ![t] = "locked"]
            /\ UNCHANGED <<op, core, pre>>
    /\ UNCHANGED <<calls, handles, ctor, initially, flag, poison, issued,
                   sigDone, waitDone, notifies, blockedAtSignal, mixed,
                   origin, raised>>

\* What a thread inside a call does when the scheduler runs it.
Step(t) ==
    \/ Lock(t)
    \/ SignalBody(t)
    \/ SignalIfNeededBody(t)
    \/ WaitCheck(t)
    \/ WaitConsume(t)
    \/ Unlock(t)
    \/ Reacquire(t)

\* The steps of the threads.
ThreadNext ==
    \/ \E t \in Threads, h \in DOMAIN handles, o \in Ops : Call(t, h, o)
    \/ \E t \in Threads : Lock(t)
    \/ \E t \in Threads : SignalBody(t)
    \/ \E t \in Threads : SignalIfNeededBody(t)
    \/ \E t \in Threads : WaitCheck(t)
    \/ \E t \in Threads : WaitConsume(t)
    \/ \E t \in Threads : Unlock(t)
    \/ \E t \in Threads : SpuriousWakeup(t)
    \/ \E t \in Threads : Reacquire(t)

Next ==
    \/ \E h \in DOMAIN handles : Clone(h)
    \/ ThreadNext

Spec == Init /\ [][Next]_vars

SpecTwo == InitTwo /\ [][Next]_vars

\* Every thread that is inside a call gets to run.  Strong fairness: a
\* thread that waits for the mutex is runnable only while the mutex is free,
\* and it gets the mutex when it is free again and again; a waiter that wakes
\* spuriously, takes the lock and parks again cannot keep the others out for
\* ever.  A thread that holds the guard stays runnable until it runs.
\* Starting a call and waking spuriously are never forced.
\* The handle is not cloned here: all calls go through the one handle.
FairSpec ==
    /\ Init
    /\ [][ThreadNext]_vars
    /\ \A t \in Threads : SF_vars(Step(t))

\* ------------------------------------------------------------------ claims
\* The cores of FairSpec: Init constructs one semaphore.
FairCores == {1}

\* The permits core c was constructed with.
Permit(c) == IF initially[c] THEN 1 ELSE 0

\* C1: on every core the number of wait() calls that have returned never
\* exceeds the initial permit plus the number of signal() and
\* signal_if_needed() calls that have completed.
AtMostOneWaitPerSignal ==
    \A c \in Cores : waitDone[c] <= Permit(c) + sigDone[c]

\* Two signals have each released one wait, on a core constructed unsignaled.
AtMostOneWaitPerSignalWitness ==
    \E c \in Cores : ~initially[c] /\ waitDone[c] = 2 /\ sigDone[c] = 2

\* C2: a signal() that holds the lock and finds the flag true ends in the
\* misuse assertion failure; the flag stays true, no notification is issued
\* and no other thread is woken.
DoubleSignalFatal ==
    [][\A t \in Threads :
          LET c == core[t] IN
          (pc[t] = "locked" /\ op[t] = SignalOp /\ flag[c] /\ pc'[t] # pc[t])
              => /\ pc'[t] = "misuse"
                 /\ flag'[c]
                 /\ notifies'[c] = notifies[c]
                 /\ \A u \in Threads \ {t} : pc'[u] = pc[u]]_vars

\* new(false), signal(), signal() with no wait(): the second call has failed
\* with the assertion and the flag is true.
DoubleSignalFatalWitness ==
    \E t \in Threads, c \in Cores :
        /\ pc[t] = "misuse"
        /\ ~initially[c] /\ flag[c]
        /\ issued[c][SignalOp] = 2 /\ issued[c][SignalIfNeededOp] = 0
        /\ issued[c][WaitOp] = 0
        /\ sigDone[c] = 1 /\ notifies[c] = 1

\* C3 as stated: a wait() that began after a signal had completed, with the
\* permit there and no other wait() consuming it since (pre), never parks on
\* the condition variable and never fails: it observes the flag true and
\* returns.
NoLostWakeupAlwaysReturns ==
    [][\A t \in Threads :
          pre[t] => /\ pc'[t] \notin {"blocked", "poisoned"}
                    /\ (pc[t] = "locked" /\ pc'[t] # pc[t]) => pc'[t] = "observed"]_vars

\* C3, amended: such a wait() never parks on the condition variable; when it
\* has the lock it observes the flag true; it fails only at lock acquisition
\* and only on a mutex that a failed signal() has poisoned.
NoLostWakeup ==
    [][\A t \in Threads :
          pre[t] => /\ pc'[t] # "blocked"
                    /\ pc[t] = "locked" => flag[core[t]]
                    /\ (pc[t] = "locked" /\ pc'[t] # pc[t]) => pc'[t] = "observed"
                    /\ pc'[t] = "poisoned" => (pc[t] = "lock" /\ poison[core[t]])]_vars

\* A wait() that began after a completed signal has observed the flag true at
\* its first check.
NoLostWakeupWitness ==
    \E t \in Threads : pre[t] /\ pc[t] = "observed" /\ ~initially[core[t]]

\* A signal() on core c has just set the flag and notified, while threads
\* were blocked inside wait(); it still holds the lock.
SignalledWhileBlocked(c) ==
    /\ InCondvar(c) # {}
    /\ \E s \in Threads : pc[s] = "unlock" /\ op[s] = SignalOp /\ core[s] = c

\* The same, with w the only thread in a wait() on core c.
SignalledWhileOnlyBlocked(c, w) ==
    /\ InCondvar(c) = {w}
    /\ \A u \in Threads \ {w} : ~(op[u] = WaitOp /\ core[u] = c)
    /\ \E s \in Threads : pc[s] = "unlock" /\ op[s] = SignalOp /\ core[s] = c

\* A wait() on core c has left wait_while, has taken the permit and is
\* returning.
WaitReturning(c) ==
    \E t \in Threads : pc[t] = "unlock" /\ op[t] = WaitOp /\ core[t] = c

\* C4 as stated: after a signal() that succeeds while threads are blocked in
\* wait(), some wait() on that core eventually returns.
SignalWakesBlockedAlways ==
    \A c \in FairCores : SignalledWhileBlocked(c) ~> WaitReturning(c)

\* C4, amended: after such a signal() some wait() on that core eventually
\* returns, unless the mutex gets poisoned by a failing signal(); with one
\* thread blocked it is that thread's wait() that returns, unless another
\* wait() is started.
SignalWakesBlocked ==
    /\ \A c \in FairCores :
          SignalledWhileBlocked(c) ~> (WaitReturning(c) \/ poison[c])
    /\ \A c \in FairCores : \A w \in Threads :
          SignalledWhileOnlyBlocked(c, w)
              ~> \/ pc[w] = "unlock" /\ op[w] = WaitOp
                 \/ poison[c]
                 \/ \E u \in Threads \ {w} : op[u] = WaitOp /\ core[u] = c

\* A wait() that was blocked when the only signal() so far was made is about
\* to return with the permit.
SignalWakesBlockedWitness ==
    \E w \in Threads, c \in Cores :
        /\ pc[w] = "unlock" /\ op[w] = WaitOp /\ core[w] = c
        /\ ~initially[c] /\ ~pre[w]
        /\ blockedAtSignal[c] # {}
        /\ sigDone[c] = 1 /\ issued[c][SignalIfNeededOp] = 0

\* The signal() and signal_if_needed() calls begun on core c.
SigIssued(c) == issued[c][SignalOp] + issued[c][SignalIfNeededOp]

\* The wait() calls on core c that have left wait_while with the permit or
\* have returned.
Released(c) ==
    waitDone[c] + Cardinality({t \in Threads : /\ op[t] = WaitOp /\ core[t] = c
                                                /\ pc[t] \in {"observed", "unlock"}})

\* The threads that were blocked at the latest signal() on core c and are
\* still blocked inside a wait() on it.
StillBlocked(c) ==
    {t \in blockedAtSignal[c] : /\ op[t] = WaitOp /\ core[t] = c
                                /\ pc[t] \in {"blocked", "woken", "locked"}}

\* Core c was made unsignaled, two or more threads were blocked in wait()
\* when a signal() set the flag, and no other signal() or signal_if_needed()
\* has been begun.
OneSignalManyWaiters(c) ==
    /\ ~initially[c]
    /\ SigIssued(c) = 1
    /\ Cardinality(blockedAtSignal[c]) >= 2

\* C5: with N >= 2 threads blocked in wait() on an unsignaled core, one
\* signal() releases one wait() and no more: as long as no further signal()
\* or signal_if_needed() is begun, at most one wait() leaves, at least N-1
\* of the N threads stay blocked (all N until one wait() has left; exactly
\* N-1 after that when the N are the only wait() calls begun), and under
\* fair scheduling one wait() does return.
OneSignalReleasesOne ==
    /\ [](\A c \in FairCores :
            OneSignalManyWaiters(c) =>
                /\ Released(c) <= 1
                /\ Cardinality(StillBlocked(c)) + Released(c)
                       >= Cardinality(blockedAtSignal[c])
                /\ issued[c][WaitOp] = Cardinality(blockedAtSignal[c])
                       => Cardinality(StillBlocked(c)) + Released(c)
                              = Cardinality(blockedAtSignal[c]))
    /\ \A c \in FairCores :
          OneSignalManyWaiters(c) ~> (waitDone[c] = 1 \/ ~OneSignalManyWaiters(c))

\* One of two or more blocked threads has returned after the single
\* signal(), and another one of them is parked on the condition variable.
OneSignalReleasesOneWitness ==
    \E c \in Cores :
        /\ OneSignalManyWaiters(c)
        /\ waitDone[c] = 1 /\ sigDone[c] = 1
        /\ issued[c][WaitOp] = Cardinality(blockedAtSignal[c])
        /\ \E t \in StillBlocked(c) : pc[t] = "blocked"

\* Core c was made unsignaled and has seen exactly signal(), then wait().
RoundTrip(c) ==
    /\ ~initially[c]
    /\ issued[c] = [o \in Ops |-> IF o = SignalIfNeededOp THEN 0 ELSE 1]

\* C6: a wait() leaves wait_while only holding the lock and with the flag
\* true; it clears the flag without letting go of the lock in between, so
\* the flag is false when it unlocks and returns; and after new(false),
\* signal(), wait() the wait() does return, leaving the flag false and the
\* lock free.
WaitConsumesAtomically ==
    /\ [](\A t \in Threads :
            /\ pc[t] = "observed" => (flag[core[t]] /\ owner[core[t]] = t)
            /\ (pc[t] = "unlock" /\ op[t] = WaitOp)
                   => (~flag[core[t]] /\ owner[core[t]] = t))
    /\ [][\A t \in Threads :
            /\ (pc[t] = "observed" /\ pc'[t] # pc[t])
                   => (pc'[t] = "unlock" /\ ~flag'[core[t]] /\ owner'[core[t]] = t)
            /\ (op[t] = WaitOp /\ pc'[t] = "idle")
                   => (pc[t] = "unlock" /\ ~flag[core[t]])
            /\ (op[t] = WaitOp /\ pc'[t] = "unlock" /\ pc[t] # "unlock")
                   => pc[t] = "observed"]_vars
    /\ \A c \in FairCores :
          RoundTrip(c) ~> \/ ~RoundTrip(c)
                          \/ /\ waitDone[c] = 1 /\ sigDone[c] = 1
                             /\ ~flag[c] /\ owner[c] = NoThread

\* new(false), signal(), wait(), the signal over before the wait began: both
\* have returned, the flag is false and the lock is free.
WaitConsumesAtomicallyWitness ==
    \E c \in Cores :
        /\ RoundTrip(c) /\ ~mixed[c]
        /\ waitDone[c] = 1 /\ sigDone[c] = 1
        /\ ~flag[c] /\ owner[c] = NoThread

\* Core c was made unsignaled, and has seen one or more signal_if_needed()
\* calls and no signal(); every wait() on it began after all of them were
\* over.
OnlyIfNeededThenWaits(c) ==
    /\ ~initially[c]
    /\ issued[c][SignalOp] = 0
    /\ issued[c][SignalIfNeededOp] >= 1
    /\ ~mixed[c]

\* C7: any number of signal_if_needed() calls in a row on an unsignaled core
\* all succeed and leave one permit: the flag is true once one of them is
\* over and until a wait() takes it; of the wait() calls begun afterwards at
\* most one leaves, under fair scheduling one does return, and the others
\* stay inside wait() as long as no further signal is begun.
SignalIfNeededIdempotent ==
    /\ [](\A c \in FairCores :
            OnlyIfNeededThenWaits(c) =>
                /\ Released(c) <= 1
                /\ (sigDone[c] >= 1 /\ Released(c) = 0) => flag[c]
                /\ (issued[c][WaitOp] > 0) => sigDone[c] = issued[c][SignalIfNeededOp]
                /\ ~poison[c])
    /\ [][\A t \in Threads :
            (core[t] \in FairCores /\ OnlyIfNeededThenWaits(core[t]))
                => pc'[t] \notin Failed]_vars
    /\ \A c \in FairCores :
          (OnlyIfNeededThenWaits(c) /\ issued[c][WaitOp] >= 1)
              ~> (waitDone[c] = 1 \/ ~OnlyIfNeededThenWaits(c))

\* Two signal_if_needed() calls, then two wait() calls: one wait() has
\* returned and the other is parked on the condition variable.
SignalIfNeededIdempotentWitness ==
    \E c \in Cores :
        /\ OnlyIfNeededThenWaits(c)
        /\ sigDone[c] = 2 /\ issued[c][WaitOp] = 2
        /\ waitDone[c] = 1
        /\ \E t \in Threads : pc[t] = "blocked" /\ core[t] = c

\* C8 as stated: in every reachable state, whatever calls came before, a
\* signal_if_needed() call does not fail fatally.
SignalIfNeededNeverFails ==
    [][\A t \in Threads :
          op[t] = SignalIfNeededOp => pc'[t] \notin Failed]_vars

\* C8, amended: a signal_if_needed() call completes without a fatal failure
\* unless the mutex of its core is poisoned, that is unless a signal() on
\* that core has failed its assertion before; then, and only then, it fails,
\* at lock acquisition.
SignalIfNeededFailsOnlyPoisoned ==
    [][\A t \in Threads :
          (op[t] = SignalIfNeededOp /\ pc'[t] # pc[t])
              => IF pc[t] = "lock" /\ poison[core[t]]
                 THEN pc'[t] = "poisoned"
                 ELSE pc'[t] \notin Failed]_vars

\* A signal_if_needed() has set the flag and is returning, after other
\* signals and waits on the core have completed.
SignalIfNeededFailsOnlyPoisonedWitness ==
    \E t \in Threads :
        /\ pc[t] = "unlock" /\ op[t] = SignalIfNeededOp
        /\ sigDone[core[t]] >= 1 /\ waitDone[core[t]] >= 1
        /\ issued[core[t]][SignalOp] >= 1

InitialFlagSignaledReached ==
    \E t \in Threads :
        LET c == core[t] IN
        /\ pc[t] = "observed" /\ ctor[c] = "new_true"
        /\ issued[c][WaitOp] = 1 /\ SigIssued(c) = 0

\* C11: two handles compare equal exactly when one was obtained from the
\* other by cloning, directly or through further clones, that is when they
\* descend from the same constructed handle, whatever the flags are; equal
\* handles have equal hashes; and no step of any call changes whether two
\* existing handles compare equal.
IdentityEquality ==
    /\ [](\A h1, h2 \in DOMAIN handles :
             /\ Eq(h1, h2) <=> origin[h1] = origin[h2]
             /\ Eq(h1, h2) => Hash(h1) = Hash(h2))
    /\ [][\A h1, h2 \in DOMAIN handles : Eq(h1, h2)' <=> Eq(h1, h2)]_vars

\* A handle equals its clone and differs from the handle of a separately
\* constructed semaphore whose flag has the same value, after the flag of
\* the first has changed since construction.
IdentityEqualityWitness ==
    \E h1, h2, h3 \in DOMAIN handles :
        /\ h1 # h3 /\ Eq(h1, h3) /\ Hash(h1) = Hash(h3)
        /\ ~Eq(h1, h2)
        /\ flag[handles[h1]] = flag[handles[h2]]
        /\ flag[handles[h1]] # initially[handles[h1]]

\* The cores whose state a step changes: the flag, the mutex, the counts of
\* the core, or the position of a thread whose call is on the core.
TouchedCores ==
    {c \in Cores :
        \/ flag'[c] # flag[c]
        \/ owner'[c] # owner[c]
        \/ poison'[c] # poison[c]
        \/ notifies'[c] # notifies[c]
        \/ sigDone'[c] # sigDone[c]
        \/ waitDone'[c] # waitDone[c]
        \/ raised'[c] # raised[c]
        \/ \E t \in Threads : pc'[t] # pc[t] /\ c \in {core[t], core'[t]}}

\* C12: a call through a handle is the same step as that call through any
\* other handle of the same core; a step of signal(), signal_if_needed() or
\* wait() changes the flag, the mutex and the threads of one core only, the
\* core of the call; and clone (with eq and hash, which are pure) changes
\* no flag and moves no thread.
HandlesShareCoresIsolated ==
    [][/\ \A t \in Threads :
              (pc[t] \in Ready /\ pc'[t] = "lock")
                  => \A h \in DOMAIN handles :
                         handles[h] = core'[t] => Call(t, h, op'[t])
       /\ Cardinality(TouchedCores) <= 1
       /\ \A t \in Threads :
              pc'[t] # pc[t] /\ pc[t] \notin Ready
                  => core'[t] \in {core[t], NoCore}
       /\ handles' # handles
              => /\ TouchedCores = {}
                 /\ \A h1, h2 \in DOMAIN handles :
                        /\ Eq(h1, h2)' = Eq(h1, h2)
                        /\ Hash(h1)' = Hash(h1)]_vars

\* A semaphore constructed unsignaled has two handles and a wait() on it has
\* returned, while on the other semaphore, never signalled, a thread is
\* still parked with the flag false.
HandlesShareCoresIsolatedWitness ==
    \E c, d \in Cores :
        /\ c # d
        /\ \E h1, h2 \in DOMAIN handles :
               h1 # h2 /\ handles[h1] = c /\ handles[h2] = c
        /\ ~initially[c] /\ waitDone[c] >= 1
        /\ Waiters(d) # {} /\ ~flag[d] /\ raised[d] = 0 /\ notifies[d] = 0

\* The threads inside a critical section of core c: between taking the
\* guard (by lock(), or inside Condvar::wait on waking) and dropping it.
InCriticalSection(c) ==
    {t \in Threads : core[t] = c /\ pc[t] \in {"locked", "observed", "unlock"}}

\* C13: on every core at most one thread is inside a critical section of
\* signal(), signal_if_needed() or wait(), and it is the holder of the
\* mutex; a thread that waits for the mutex, is parked on the condition
\* variable or was woken and has not re-acquired the mutex does not hold
\* it; the flag is read (tested by wait_while or by the assertion) and
\* written only in steps of the holder.
MutualExclusion ==
    /\ [](\A c \in Cores :
             /\ Cardinality(InCriticalSection(c)) <= 1
             /\ InCriticalSection(c) = {owner[c]} \ {NoThread})
    /\ [](\A t \in Threads :
             pc[t] \in {"lock", "blocked", "woken"} => owner[core[t]] # t)
    /\ [][\A c \in Cores :
             /\ flag'[c] # flag[c]
                    => /\ owner[c] \in Threads
                       /\ pc[owner[c]] \in {"locked", "observed"}
                       /\ pc'[owner[c]] = "unlock"
             /\ \A t \in Threads :
                    (core[t] = c /\ pc[t] \in {"locked", "observed"}
                                /\ pc'[t] # pc[t])
                        => owner[c] = t]_vars

\* One thread is inside its critical section, having seen the flag true,
\* while a second waits for the mutex and a third is parked on the
\* condition variable of the same core.
MutualExclusionWitness ==
    \E t, u, v \in Threads :
        /\ pc[t] = "observed" /\ owner[core[t]] = t
        /\ pc[u] = "lock" /\ core[u] = core[t]
        /\ pc[v] = "blocked" /\ core[v] = core[t]

\* Some signal_if_needed() call on core c is under way.
SignalIfNeededInFlight(c) ==
    \E t \in Threads : op[t] = SignalIfNeededOp /\ core[t] = c

\* Some signal_if_needed() call on core c has done its work and is about to
\* drop the guard and return.
SignalIfNeededCompleting(c) ==
    \E t \in Threads :
        op[t] = SignalIfNeededOp /\ core[t] = c /\ pc[t] = "unlock"

\* Some wait() call on core c is under way while the flag is true.
WaitWithPermit(c) ==
    flag[c] /\ \E t \in Threads : op[t] = WaitOp /\ core[t] = c

\* C14 as stated: whatever calls came before, failed ones included, the
\* cycle can still be run: a signal_if_needed() that is begun completes,
\* and with the flag true a wait() that is under way returns.
NoTerminalState ==
    \A c \in FairCores :
        /\ SignalIfNeededInFlight(c) ~> SignalIfNeededCompleting(c)
        /\ WaitWithPermit(c) ~> WaitReturning(c)

\* C14, amended: while no signal() has failed its assertion the cycle can
\* be run again and again: a signal_if_needed() that is begun completes and
\* with the flag true a wait() that is under way returns, unless the mutex
\* is poisoned first; once it is poisoned it stays poisoned and no call on
\* the core completes any more.
NoTerminalStateUnlessPoisoned ==
    /\ \A c \in FairCores :
           /\ SignalIfNeededInFlight(c)
                  ~> (SignalIfNeededCompleting(c) \/ poison[c])
           /\ WaitWithPermit(c) ~> (WaitReturning(c) \/ poison[c])
    /\ [][\A c \in FairCores :
             poison[c] => /\ poison'[c]
                          /\ sigDone'[c] = sigDone[c]
                          /\ waitDone'[c] = waitDone[c]
                          /\ InCriticalSection(c)' = {}]_vars

\* The second round of the cycle: a wait() is returning after two
\* signal_if_needed() calls and an earlier wait() that returned, on a mutex
\* that is not poisoned.
NoTerminalStateUnlessPoisonedWitness ==
    \E c \in FairCores :
        /\ ~poison[c] /\ ~initially[c]
        /\ issued[c][SignalIfNeededOp] = 2 /\ issued[c][SignalOp] = 0
        /\ waitDone[c] = 1 /\ WaitReturning(c)

\* Thread t is in signal(), holds the guard and is about to run the body,
\* while two or more threads are blocked inside Condvar::wait of the core.
SignalWithManyWaiters(t) ==
    /\ pc[t] = "locked"
    /\ op[t] = SignalOp
    /\ Cardinality(InCondvar(core[t])) >= 2

\* C15 as stated: a signal() made while two or more threads are blocked in
\* wait() ends in the misuse assertion failure.
SignalWithManyWaitersFatal ==
    [][\A t \in Threads :
          (SignalWithManyWaiters(t) /\ pc'[t] # pc[t]) => pc'[t] = "misuse"]_vars

\* C15, amended: a signal() made while two or more threads are blocked in
\* wait() fails exactly when the flag is already true; with the flag false
\* it succeeds: it sets the flag, notifies once and wakes at most one of
\* the parked threads, and the mutex is not poisoned.
SignalWithManyWaitersFailsIffFlag ==
    [][\A t \in Threads :
          LET c == core[t] IN
          (SignalWithManyWaiters(t) /\ pc'[t] # pc[t])
              => /\ pc'[t] = "misuse" <=> flag[c]
                 /\ pc'[t] = "misuse" => poison'[c]
                 /\ ~flag[c]
                        => /\ pc'[t] = "unlock"
                           /\ flag'[c]
                           /\ ~poison'[c]
                           /\ notifies'[c] = notifies[c] + 1
                           /\ Cardinality(Waiters(c) \ Waiters(c)') <= 1
                           /\ Cardinality(InCondvar(c)') >= 2]_vars

\* A signal() has succeeded with two threads blocked in wait(): it is about
\* to return, the flag is true and the mutex is not poisoned.
SignalWithManyWaitersFailsIffFlagWitness ==
    \E t \in Threads :
        /\ pc[t] = "unlock" /\ op[t] = SignalOp
        /\ Cardinality(blockedAtSignal[core[t]]) >= 2
        /\ Cardinality(InCondvar(core[t])) >= 2
        /\ flag[core[t]] /\ ~poison[core[t]]

\* A signal() has failed with two threads blocked in wait(), the flag being
\* true.
SignalWithManyWaitersFailedReached ==
    \E t \in Threads :
        /\ pc[t] = "misuse"
        /\ \E c \in Cores : Cardinality(InCondvar(c)) >= 2 /\ flag[c]

\* C16: a thread woken inside Condvar::wait, by a notification or
\* spuriously, only takes the mutex again (or finds it poisoned) and is then
\* back at the test of the flag, holding the guard; a wait() that tests the
\* flag and finds it false parks again, releasing the mutex, without
\* returning and without changing the flag; a wait() goes on to consume and
\* return only from a critical section in which it has just seen the flag
\* true.
RecheckAfterWakeup ==
    /\ [](\A t \in Threads :
             pc[t] = "observed" => flag[core[t]] /\ owner[core[t]] = t)
    /\ [][\A t \in Threads :
             LET c == core[t] IN
             /\ (pc[t] = "woken" /\ pc'[t] # pc[t])
                    => /\ flag'[c] = flag[c]
                       /\ waitDone'[c] = waitDone[c]
                       /\ \/ pc'[t] = "locked" /\ owner'[c] = t
                          \/ pc'[t] = "poisoned" /\ poison[c]
             /\ (pc[t] = "locked" /\ op[t] = WaitOp /\ ~flag[c]
                                  /\ pc'[t] # pc[t])
                    => /\ pc'[t] = "blocked"
                       /\ ~flag'[c]
                       /\ owner'[c] = NoThread
                       /\ waitDone'[c] = waitDone[c]
             /\ (op[t] = WaitOp /\ pc[t] # "unlock" /\ pc'[t] = "unlock")
                    => pc[t] = "observed" /\ flag[c] /\ ~flag'[c]
             /\ (pc[t] # "observed" /\ pc'[t] = "observed")
                    => pc[t] = "locked" /\ op[t] = WaitOp /\ flag[c]]_vars

\* A stolen wakeup: of two wait() calls one has returned with the permit of
\* the only signal(); the thread of the other was inside Condvar::wait when
\* that signal() ran, has been woken, holds the mutex again and is about to
\* test a flag that is false.
RecheckAfterWakeupWitness ==
    \E t \in Threads :
        LET c == core[t] IN
        /\ pc[t] = "locked" /\ op[t] = WaitOp /\ ~flag[c]
        /\ t \in blockedAtSignal[c]
        /\ issued[c][WaitOp] = 2 /\ waitDone[c] = 1
        /\ raised[c] = 1 /\ ~initially[c]

\* C17: under fair scheduling every signal() and signal_if_needed() call
\* that is begun ends, by returning or by a panic, whatever the threads in
\* wait() do, parked for ever included: whenever such calls are under way
\* on a core, a state follows in which none is, so each of them has ended;
\* and a thread parked on the condition variable never holds the mutex.
SignalsTerminate ==
    /\ \A c \in FairCores : SignalsInFlight(c) ~> ~SignalsInFlight(c)
    /\ [](\A c \in FairCores : \A w \in Waiters(c) : owner[c] # w)

\* A signal_if_needed() call has returned while two threads were inside
\* Condvar::wait all along, one of them still parked, and no wait() has
\* returned.
SignalsTerminateWitness ==
    \E c \in FairCores :
        /\ sigDone[c] = 1 /\ issued[c][SignalIfNeededOp] = 1
        /\ issued[c][SignalOp] = 0
        /\ waitDone[c] = 0
        /\ Cardinality(InCondvar(c)) = 2
        /\ Waiters(c) # {}

\* C18: a signal() that fails its assertion leaves the mutex poisoned and
\* unlocked with the flag true.  From then on the mutex stays poisoned and
\* the flag true, no thread is inside a critical section of the core and
\* no call on it completes; the only steps of the threads whose calls are
\* on the core are: a call that waits for the mutex fails at lock(), a
\* parked thread wakes, a woken thread fails inside wait_while.
PoisonedForever ==
    /\ [](\A c \in Cores :
             poison[c] => /\ flag[c]
                          /\ owner[c] = NoThread
                          /\ InCriticalSection(c) = {})
    /\ [][\A c \in Cores :
             /\ (\E t \in Threads :
                     core[t] = c /\ pc[t] # "misuse" /\ pc'[t] = "misuse")
                    => poison'[c] /\ flag'[c] /\ owner'[c] = NoThread
             /\ poison[c]
                    => /\ poison'[c]
                       /\ flag'[c]
                       /\ sigDone'[c] = sigDone[c]
                       /\ waitDone'[c] = waitDone[c]
                       /\ \A t \in Threads :
                              (core[t] = c /\ pc'[t] # pc[t])
                                  => \/ pc[t] = "lock" /\ pc'[t] = "poisoned"
                                     \/ pc[t] = "woken" /\ pc'[t] = "poisoned"
                                     \/ pc[t] = "blocked" /\ pc'[t] = "woken"]_vars

\* After the failed signal(): the mutex is poisoned, a later call has failed
\* on it, and a thread that was parked in wait() has been woken and is about
\* to fail, the flag being true.
PoisonedForeverWitness ==
    \E c \in Cores :
        /\ poison[c] /\ flag[c]
        /\ \E t \in Threads : pc[t] = "poisoned"
        /\ \E w \in Threads : pc[w] = "woken" /\ core[w] = c

\* 1 for a flag that is true, 0 for one that is false.
Held(c) == IF flag[c] THEN 1 ELSE 0

\* C19: whenever the mutex of a core is free, the wait() calls that have
\* consumed the permit (all of them have returned by then) plus the permit
\* in the flag equal the permit the core was constructed with plus the
\* critical sections of signal() and signal_if_needed() that turned the
\* flag from false to true; the flag goes from false to true only in a step
\* of signal() or signal_if_needed() by the holder of the mutex, and from
\* true to false only in a step of wait() by the holder.
PermitAccounting ==
    /\ [](\A c \in Cores :
             owner[c] = NoThread
                 => waitDone[c] + Held(c) = Permit(c) + raised[c])
    /\ [][\A c \in Cores :
             /\ (~flag[c] /\ flag'[c])
                    => /\ owner[c] \in Threads
                       /\ op[owner[c]] \in SignalOps
                       /\ pc[owner[c]] = "locked"
                       /\ raised'[c] = raised[c] + 1
             /\ (flag[c] /\ ~flag'[c])
                    => /\ owner[c] \in Threads
                       /\ op[owner[c]] = WaitOp
                       /\ pc[owner[c]] = "observed"
                       /\ raised'[c] = raised[c]
             /\ flag'[c] = flag[c] => raised'[c] = raised[c]]_vars

\* With the mutex free: two signal_if_needed() calls have completed, only
\* the first of which changed the flag, and one wait() has consumed the
\* permit.
PermitAccountingWitness ==
    \E c \in Cores :
        /\ owner[c] = NoThread /\ ~poison[c] /\ ~initially[c]
        /\ sigDone[c] = 2 /\ raised[c] = 1
        /\ waitDone[c] = 1 /\ ~flag[c]

====
